---- MODULE Spec2Model ----
(***************************************************************************)
(* Model of the harness agent: the tool-call extractor of agent.py, the   *)
(* step loop run_session_async, the MCP client manager of mcp_client.py,  *)
(* the semantic search tool of tools/search.py and the REPL of             *)
(* __main__.py: /clear, /context and what a SIGINT does to a running task. *)
(*                                                                         *)
(* TEXT.  A text (an LLM reply) is a sequence of lexemes separated by      *)
(* single spaces.  Each lexeme stands for a fixed character string:        *)
(*    "w"   ok                 a prose word                                *)
(*    "F"   ```                a fence marker                              *)
(*    "FJ"  ```json            a fence marker carrying the json tag        *)
(*    "{"   {          "}"  }          ","  ,         "V"  5               *)
(*    "Ts"  "tool":"semantic_search"   "Tr"  "tool":"read_file"            *)
(*    "Tu"  "tool":"nope"              "Q"   "query":"q"                   *)
(*    "K"   "k":1                      "Sc"  "k":"}"                       *)
(*    "L"   "limit":2                                                      *)
(*    "N"   "n":                       "A"   "args":                       *)
(*    "SENT" Error: Max steps reached without completion                   *)
(*    "TR"  Tool result:                                                   *)
(* "Sc" is a member whose string value holds a closing brace character:    *)
(* json.loads reads it as a string, the character scans of agent.py read   *)
(* it as a brace.                                                          *)
(***************************************************************************)
EXTENDS Integers, Sequences, FiniteSets, TLC

\* ------------------------------------------------------------------ bounds
MaxPieces == 4

\* ------------------------------------------------------------ JSON values
\* A parsed JSON value: its kind, the keys of an object, and a canonical
\* serialisation (members in KeyOrder, a repeated key keeps its last value).
KeyOrder == <<"tool", "args", "query", "k", "n", "limit">>

StrVal(s) == [kind |-> "string", keys |-> {}, canon |-> <<s>>]
NumVal(n) == [kind |-> "number", keys |-> {}, canon |-> <<n>>]

RECURSIVE CanonMembers(_, _)
CanonMembers(mem, i) ==
    IF i > Len(KeyOrder) THEN <<>>
    ELSE (IF KeyOrder[i] \in DOMAIN mem
            THEN <<KeyOrder[i]>> \o mem[KeyOrder[i]].canon
            ELSE <<>>) \o CanonMembers(mem, i + 1)

ObjVal(mem) ==
    [kind |-> "object", keys |-> DOMAIN mem,
     canon |-> <<"{">> \o CanonMembers(mem, 1) \o <<"}">>]

EmptyMem == [k \in {} |-> StrVal("")]
EmptyDict == ObjVal(EmptyMem)

\* dict assignment d[key] = v: a repeated key is overwritten
SetKey(mem, key, v) ==
    [k \in (DOMAIN mem) \cup {key} |-> IF k = key THEN v ELSE mem[k]]

\* lexemes that are a complete "key":value member
PairLexemes == {"Ts", "Tr", "Tu", "Q", "K", "Sc", "L"}
\* lexemes that are a "key": awaiting its value
PrefixLexemes == {"N", "A"}

LexKey(t) ==
    CASE t \in {"Ts", "Tr", "Tu"} -> "tool"
      [] t = "Q" -> "query"
      [] t \in {"K", "Sc"} -> "k"
      [] t = "L" -> "limit"
      [] t = "N" -> "n"
      [] t = "A" -> "args"

LexVal(t) ==
    CASE t = "Ts" -> StrVal("semantic_search")
      [] t = "Tr" -> StrVal("read_file")
      [] t = "Tu" -> StrVal("nope")
      [] t = "Q" -> StrVal("q")
      [] t = "K" -> NumVal("1")
      [] t = "Sc" -> StrVal("}")
      [] t = "L" -> NumVal("2")

NoParse == [ok |-> FALSE, next |-> 0, val |-> StrVal(""), mem |-> EmptyMem]

\* json.loads on the lexemes toks[i..]: a value starting at i.  Returns where
\* the value ends (next), the value, and for an object its members.
RECURSIVE ParseValue(_, _)
RECURSIVE ParseMembers(_, _, _)
ParseValue(toks, i) ==
    IF i > Len(toks) THEN NoParse
    ELSE IF toks[i] = "V"
      THEN [ok |-> TRUE, next |-> i + 1, val |-> NumVal("5"), mem |-> EmptyMem]
    ELSE IF toks[i] = "{"
      THEN IF i + 1 <= Len(toks) /\ toks[i + 1] = "}"
             THEN [ok |-> TRUE, next |-> i + 2, val |-> EmptyDict, mem |-> EmptyMem]
             ELSE ParseMembers(toks, i + 1, EmptyMem)
    ELSE NoParse

\* after a member: "}" closes the object, "," asks for another member
AfterMember(toks, j, mem) ==
    IF j > Len(toks) THEN NoParse
    ELSE IF toks[j] = "}"
      THEN [ok |-> TRUE, next |-> j + 1, val |-> ObjVal(mem), mem |-> mem]
    ELSE IF toks[j] = ","
      THEN ParseMembers(toks, j + 1, mem)
    ELSE NoParse

ParseMembers(toks, i, mem) ==
    IF i > Len(toks) THEN NoParse
    ELSE IF toks[i] \in PairLexemes
      THEN AfterMember(toks, i + 1, SetKey(mem, LexKey(toks[i]), LexVal(toks[i])))
    ELSE IF toks[i] \in PrefixLexemes
      THEN LET v == ParseValue(toks, i + 1)
           IN  IF v.ok
                 THEN AfterMember(toks, v.next, SetKey(mem, LexKey(toks[i]), v.val))
                 ELSE NoParse
    ELSE NoParse

\* json.loads(candidate): the whole candidate must be one value
\* (trailing data raises JSONDecodeError)
json_loads(toks) ==
    LET r == ParseValue(toks, 1)
    IN  IF r.ok /\ r.next = Len(toks) + 1 THEN r ELSE NoParse

\* ------------------------------------------------------- _extract_tool_call
NoCall == [call |-> FALSE, tool |-> "", args |-> StrVal("")]

\* the key both methods test and read: "tool"
ToolKeyWrong == "k"
ToolKey == "tool"

\* return data["tool"], data.get("args", {})
ToolCallOfNoDefault(data) ==
    [call |-> TRUE,
     tool |-> data.mem[ToolKey].canon[1],
     args |-> IF "args" \in DOMAIN data.mem THEN data.mem["args"] ELSE StrVal("")]
ToolCallOf(data) ==
    [call |-> TRUE,
     tool |-> data.mem[ToolKey].canon[1],
     args |-> IF "args" \in DOMAIN data.mem THEN data.mem["args"] ELSE EmptyDict]

\* isinstance(data, dict) and "tool" in data
HasTool(data) == data.ok /\ data.val.kind = "object" /\ ToolKey \in data.val.keys

IsFence(t) == t \in {"F", "FJ"}

\* re.search(r'```(?:json)?\s*(\{.+\})\s*```', text, re.DOTALL): the leftmost
\* fence directly followed by "{" from which some "}" directly followed by a
\* fence can be reached; .+ is greedy, so the group ends at the LAST such "}".
\* ("Sc" holds a "}" followed by a quote, never by a fence.)
GroupEnds(text, p) ==
    {e \in (p + 2)..(Len(text) - 1) : text[e] = "}" /\ IsFence(text[e + 1])}

MatchStarts(text) ==
    {p \in 1..Len(text) : /\ IsFence(text[p])
                          /\ p + 1 <= Len(text)
                          /\ text[p + 1] = "{"
                          /\ GroupEnds(text, p) # {}}

SetMin(S) == CHOOSE x \in S : \A y \in S : x <= y
SetMax(S) == CHOOSE x \in S : \A y \in S : x >= y

GreedyEnd(text, p) == SetMax(GroupEnds(text, p))

\* code_block.group(1) as a span <<first, last>>, <<0, 0>> when no match
code_block(text) ==
    IF MatchStarts(text) = {} THEN <<0, 0>>
    ELSE LET p == SetMin(MatchStarts(text))
         IN  <<p + 1, GreedyEnd(text, p)>>

\* Method 1 (agent.py 51-58): the fenced block, when it parses and has "tool"
Method1(text) ==
    LET g == code_block(text)
    IN  IF g = <<0, 0>> THEN NoCall
        ELSE LET data == json_loads(SubSeq(text, g[1], g[2]))
             IN  IF HasTool(data) THEN ToolCallOf(data) ELSE NoCall

\* the brace characters the depth scan sees: "{" opens, "}" and the brace
\* inside "Sc" close
Opens(t) == t = "{"
Closes(t) == t \in {"}", "Sc"}

\* the for loop of agent.py 64-77 from start: the index where depth first
\* returns to 0, or 0 when the text ends first
RECURSIVE DepthScan(_, _, _)
DepthScan(text, i, depth) ==
    IF i > Len(text) THEN 0
    ELSE IF Opens(text[i]) THEN DepthScan(text, i + 1, depth + 1)
    ELSE IF Closes(text[i])
      THEN IF depth - 1 = 0 THEN i ELSE DepthScan(text, i + 1, depth - 1)
    ELSE DepthScan(text, i + 1, depth)

BalancedEnd(text, start) == DepthScan(text, start, 0)

\* text.find('{', from): 0 when there is none
FindBrace(text, from) ==
    IF \E i \in from..Len(text) : text[i] = "{"
      THEN SetMin({i \in from..Len(text) : text[i] = "{"})
      ELSE 0

\* start = text.find('{', start + 1)  (agent.py 78); end is where the failed
\* candidate ended (0: it never closed)
NextStartAfterCandidate(text, start, end) ==
    IF end = 0 THEN FindBrace(text, start + 1) ELSE FindBrace(text, end + 1)
NextStart(text, start, end) == FindBrace(text, start + 1)

\* the candidate text[start:i+1] of agent.py 70-76.  A candidate that ends at
\* the brace inside "Sc" ends inside a string literal: json.loads raises.
Candidate(text, start) ==
    LET e == BalancedEnd(text, start)
    IN  IF e = 0 \/ text[e] # "}" THEN NoParse
        ELSE json_loads(SubSeq(text, start, e))

\* Method 2 (agent.py 61-80)
RECURSIVE Method2(_, _)
Method2(text, start) ==
    IF start = 0 THEN NoCall
    ELSE LET data == Candidate(text, start)
         IN  IF HasTool(data) THEN ToolCallOf(data)
             ELSE Method2(text, NextStart(text, start, BalancedEnd(text, start)))

extract_tool_call(text) ==
    LET m1 == Method1(text)
    IN  IF m1.call THEN m1 ELSE Method2(text, FindBrace(text, 1))

\* --------------------------------------------------------------- the texts
Pieces ==
    { <<"w">>, <<"F">>, <<"FJ">>, <<"{">>, <<"}">>, <<"N">>,
      <<"{", "Ts", "}">>,
      <<"{", "K", "}">>,
      <<"{", "Ts", ",", "Sc", "}">>,
      <<"FJ", "{", "Tr", ",", "A", "{", "Q", "}", "}", "F">> }

RECURSIVE TextsOf(_)
TextsOf(n) ==
    IF n = 0 THEN {<<>>}
    ELSE LET shorter == TextsOf(n - 1)
         IN  shorter \cup {t \o p : t \in shorter, p \in Pieces}

Texts == TextsOf(MaxPieces)

\* ------------------------------------------------------------- MCP manager
\* config.get_mcp_servers(): the configured servers, in list order
Servers == <<"filesystem", "contrast">>

\* Config.load takes mcp_servers from ~/.harness/config.json as it stands:
\* nothing keeps two entries from carrying the same name.  "contrast#2" is a
\* second entry named "contrast", with a command of its own.
ServerLists == {Servers, <<"contrast", "contrast#2">>, <<"contrast#2", "contrast">>}

\* server.name of an entry
NameOf(server) == IF server = "contrast#2" THEN "contrast" ELSE server

\* what session.list_tools() of a server answers when it answers
Advertised(server) ==
    IF server = "filesystem" THEN <<"read_file", "semantic_search">>
    ELSE IF server = "contrast#2" THEN <<"semantic_search">>
    ELSE <<"read_file">>

\* how far _connect_server gets before it raises
ConnectOutcomes == {"transport_fails", "handshake_fails", "discovery_fails", "ok"}

\* self.sessions[server.name] = session (line 67) is reached once
\* session.initialize() returned
SessionStoredNever(outcome) == FALSE
SessionStored(outcome) == outcome \in {"discovery_fails", "ok"}

\* the for loop of lines 71-77 is reached once session.list_tools() returned
ToolsRegisteredWithoutHandshake(outcome) == outcome \in {"handshake_fails", "ok"}
ToolsRegisteredWithoutDiscovery(outcome) == outcome \in {"discovery_fails", "ok"}
ToolsRegistered(outcome) == outcome = "ok"

\* the requests _connect_server sends on the session, in order (lines 64, 70):
\* initialize once the transport is up, list_tools once initialize returned
SessionCalls(outcome) ==
    IF outcome = "transport_fails" THEN <<>>
    ELSE IF outcome = "handshake_fails" THEN <<"initialize">>
    ELSE <<"initialize", "list_tools">>

\* the contexts _connect_server entered on self._exit_stack (lines 55-61):
\* both once stdio_client started, none when it did not
Entered(server, outcome) ==
    IF outcome = "transport_fails" THEN <<>>
    ELSE <<<<"stdio_client", server>>, <<"ClientSession", server>>>>

\* connect(): the except clause swallows the exception and the for loop takes
\* the next server of the list
AfterAttemptRetries(idx, outcome) ==
    IF outcome = "ok" THEN idx + 1 ELSE idx
AfterAttemptAborts(idx, outcome) ==
    IF outcome = "ok" THEN idx + 1 ELSE Len(Servers) + 1
AfterAttempt(idx, outcome) == idx + 1

\* NATIVE_TOOLS, in dict order
NativeOrder == <<"semantic_search">>
NATIVE_TOOLS == {NativeOrder[i] : i \in 1..Len(NativeOrder)}

Range(seq) == {seq[i] : i \in 1..Len(seq)}

\* for tool in response.tools: self.tools[tool.name] = MCPTool(...): the dict
\* entry is overwritten, a new name goes to the end of the dict
RECURSIVE RegisterToolsKeepFirst(_, _, _, _)
RegisterToolsKeepFirst(reg, names, server, i) ==
    IF i > Len(names) THEN reg
    ELSE RegisterToolsKeepFirst(
           IF names[i] \in DOMAIN reg.origin THEN reg
           ELSE [origin |-> SetKey(reg.origin, names[i], server),
                 order |-> Append(reg.order, names[i])],
           names, server, i + 1)

RECURSIVE RegisterTools(_, _, _, _)
RegisterTools(reg, names, server, i) ==
    IF i > Len(names) THEN reg
    ELSE RegisterTools(
           [origin |-> SetKey(reg.origin, names[i], server),
            order |-> IF names[i] \in DOMAIN reg.origin THEN reg.order
                      ELSE Append(reg.order, names[i])],
           names, server, i + 1)

\* MCPClientManager.get_tool_docs: one line per entry of self.tools
get_tool_docs(order) == order

\* _get_native_tool_docs
get_native_tool_docs == NativeOrder

\* _build_system_prompt: the fixed rules around the two lists of doc lines
build_system_prompt(mcp_tool_docs) ==
    <<"PROMPT">> \o mcp_tool_docs \o get_native_tool_docs

\* --------------------------------------------------------------- the loop
MaxSteps == 2
MaxTasks == 1
MaxCloses == 2
MaxAvailable == 6
MaxBelow == 1

Sentinel == <<"SENT">>

\* what the user types: a task may be any text, also one that begins with the
\* words "Tool result:"
Tasks == {<<"w">>, <<"TR", "w">>}
\* the task typed in Spec
LoopTasks == {<<"w">>}

\* the replies the model backend gives in Spec
ReplyPlain == <<"w">>
ReplyNative == <<"{", "Ts", ",", "A", "{", "Q", "}", "}">>
ReplyNativeBadArgs == <<"{", "Ts", ",", "A", "{", "K", "}", "}">>
ReplyNonMapping == <<"{", "Tu", ",", "A", "V", "}">>
ReplyMcp == <<"w", "FJ", "{", "Tr", "}", "F">>
ReplyUnknown == <<"w", "{", "Tu", "}">>
ReplyNativeLimit == <<"{", "Ts", ",", "A", "{", "Q", ",", "L", "}", "}">>
\* a reply that is, word for word, the text run_session_async returns at the
\* ceiling
ReplySentinel == Sentinel
Replies == {ReplyPlain, ReplyNative, ReplyNativeBadArgs, ReplyNonMapping,
            ReplyMcp, ReplyUnknown}

\* extract_tool_call(content) of agent.py 109: the same function, worked out
\* once for each reply the backends above give
BackendReplies == Replies \cup {ReplyNativeLimit, ReplySentinel, <<>>}
ExtractionOf == [text \in BackendReplies |-> extract_tool_call(text)]
Extraction(text) ==
    IF text \in BackendReplies THEN ExtractionOf[text]
    ELSE extract_tool_call(text)

Msg(role, content) == [role |-> role, content |-> content]

\* f"Tool result:\n{result}"
ToolResultTurn(res) == Msg("user", <<"TR">> \o res)

\* SemanticSearchTool.execute(self, query, limit=5) called as execute(**args):
\* the call binds when args has "query" and nothing but "query" and "limit"
ExecuteBinds(args) ==
    /\ "query" \in args.keys
    /\ args.keys \subseteq {"query", "limit"}

\* the JSON number of a lexeme as the int json.loads makes of it
NumOf(s) == CASE s = "1" -> 1 [] s = "2" -> 2 [] s = "5" -> 5

\* def execute(self, query: str, limit: int = 5)
DefaultLimit == 5

\* the limit execute(**args) binds: args["limit"] when given, else the default
LimitOf(args) ==
    IF "limit" \in args.keys
      THEN LET i == CHOOSE j \in 1..Len(args.canon) : args.canon[j] = "limit"
           IN  NumOf(args.canon[i + 1])
      ELSE DefaultLimit

\* what the collaborators of execute do: embed(query) returns or raises;
\* client.query_points returns or raises; a store that returns holds
\* `available` matching points and hands back at most `limit` of them
SearchBackends ==
    [embed : {"ok", "raises"}, store : {"ok", "raises"},
     available : 0..MaxAvailable]

Min(a, b) == IF a <= b THEN a ELSE b

\* client.query_points(collection_name=..., query=..., limit=limit).points
query_points(limit, b) == Min(b.available, limit)

SearchErrorText == <<"Search error:", "e">>
NoResultsText == <<"No results found.">>
\* "\n\n".join(output): one "## path (score) ```content```" section per point
Sections(n) == [i \in 1..n |-> "## path"]

\* SemanticSearchTool.execute (search.py 31-76)
executeIgnoresLimit(query, limit, b) ==
    IF b.embed = "raises" THEN SearchErrorText
    ELSE IF b.store = "raises" THEN SearchErrorText
    ELSE LET points == query_points(DefaultLimit, b)
         IN  IF points = 0 THEN NoResultsText ELSE Sections(points)
execute(query, limit, b) ==
    IF b.embed = "raises" THEN SearchErrorText
    ELSE IF b.store = "raises" THEN SearchErrorText
    ELSE LET points == query_points(limit, b)
         IN  IF points = 0 THEN NoResultsText ELSE Sections(points)

\* what one execute call did: whether embed and the store were reached and
\* with which limit, and how many points came back
NoSearch == [embed |-> "not called", store |-> "not called", limit |-> 0, points |-> 0]
Searched(limit, b) ==
    IF b.embed = "raises"
      THEN [embed |-> "raises", store |-> "not called", limit |-> 0, points |-> 0]
    ELSE IF b.store = "raises"
      THEN [embed |-> "ok", store |-> "raises", limit |-> limit, points |-> 0]
    ELSE [embed |-> "ok", store |-> "ok", limit |-> limit,
          points |-> query_points(limit, b)]

\* the backend met in Spec: one point is found
LoopBackends == {[embed |-> "ok", store |-> "ok", available |-> 1]}

\* what MCPClientManager.call_tool returns once session.call_tool was awaited:
\* the joined text items, or the text of the exception it caught
UnknownToolText(name) == <<"Error: Unknown tool '", name, "'">>
NotConnectedText(server) == <<"Error: Server '", server, "' not connected">>
CallErrorText(name) == <<"Error calling tool '", name, "':", "e">>
\* "text": the result decodes to a text; "raises": session.call_tool raises;
\* "malformed": the decoding of lines 95-101 raises (content is no list)
RemoteOutcomes == {"text", "raises", "malformed"}
CallToolResult(name, outcome) ==
    IF outcome = "text" THEN <<"remote text">> ELSE CallErrorText(name)

VARIABLES
    pc,           \* where the program is
    servers,      \* connect(servers): the configured entries, in list order
    connIdx,      \* connect(): index of the next server of the list
    sessions,     \* self.sessions: server name -> the session stored under it,
                  \* named by the entry whose connection it belongs to
    tools,        \* self.tools: tool name -> server_name
    toolOrder,    \* self.tools: the names in dict order
    exitStack,    \* self._exit_stack: the contexts entered, in order
    released,     \* the contexts whose exit ran, in the order they ran
    closes,       \* calls of MCPClientManager.close so far
    connLog,      \* how far each _connect_server call got, in list order
    messages,     \* the transcript
    max_steps,    \* config.max_steps
    step,         \* the for loop's step
    content,      \* response.message.content of the current step
    tool_call,    \* what _extract_tool_call returned in the current step
    pending,      \* the awaited session.call_tool / execute: name and server
    returned,     \* how the last run_session_async ended: kind and value
    modelCalls,   \* ollama_client.chat calls of the current invocation
    invocations,  \* handler calls of the current invocation, in order
    msgs0,        \* the transcript when the current invocation began
    tasks,        \* run_session_async invocations on the current transcript
    dispatchTurns, \* the indices of the turns that agent.py 123 appended
    searched,     \* what the last SemanticSearchTool.execute call did
    sigint        \* the SIGINT of the run: whether asyncio holds a cancellation
                  \* request for the main task, and what the program was
                  \* doing when the signal arrived

vars == <<pc, servers, connIdx, sessions, tools, toolOrder, exitStack, released, closes,
          connLog, messages, max_steps, step, content, tool_call, pending,
          returned, modelCalls, invocations, msgs0, tasks, dispatchTurns,
          searched, sigint>>

mcpVars == <<servers, connIdx, sessions, tools, toolOrder, exitStack, released, closes,
             connLog>>

NoPending == [name |-> "", server |-> ""]
\* no signal arrived
NoInterrupt == [arrived |-> FALSE, requested |-> FALSE, mode |-> "", point |-> "",
                task |-> 0, calls |-> 0, transcript |-> <<>>]
NotReturned == [kind |-> "none", value |-> <<>>]

\* messages = [{"role": "system", "content": ""}]
FreshTranscript == <<[role |-> "system", content |-> <<>>]>>

\* MCPClientManager.__init__ and the fresh transcript
Constructed ==
    /\ pc = "connect"
    /\ connIdx = 1
    /\ sessions = EmptyMem
    /\ tools = EmptyMem
    /\ toolOrder = <<>>
    /\ exitStack = <<>>
    /\ released = <<>>
    /\ closes = 0
    /\ connLog = <<>>
    /\ messages = FreshTranscript
    /\ step = 0
    /\ content = <<>>
    /\ tool_call = NoCall
    /\ pending = NoPending
    /\ returned = NotReturned
    /\ modelCalls = 0
    /\ invocations = <<>>
    /\ msgs0 = <<>>
    /\ tasks = 0
    /\ dispatchTurns = {}
    /\ searched = NoSearch
    /\ sigint = NoInterrupt

\* config.max_steps as Spec takes it
StepCeilings == 0..MaxSteps

Init == servers = Servers /\ max_steps \in StepCeilings /\ Constructed

loopVars == <<messages, max_steps, step, content, tool_call, pending, returned,
              modelCalls, invocations, msgs0, tasks, dispatchTurns, searched,
              sigint>>

\* MCPClientManager._connect_server for the next server of connect()'s list,
\* with the except clause of connect() around it
ConnectServer(outcome) ==
    /\ pc = "connect"
    /\ connIdx <= Len(servers)
    /\ LET server == servers[connIdx]
           reg == RegisterTools([origin |-> tools, order |-> toolOrder],
                                Advertised(server), NameOf(server), 1)
       IN  /\ exitStack' = exitStack \o Entered(server, outcome)
           /\ sessions' = IF SessionStored(outcome)
                            THEN SetKey(sessions, NameOf(server), server)
                            ELSE sessions
           /\ tools' = IF ToolsRegistered(outcome) THEN reg.origin ELSE tools
           /\ toolOrder' = IF ToolsRegistered(outcome) THEN reg.order ELSE toolOrder
    /\ connLog' = Append(connLog, outcome)
    /\ connIdx' = AfterAttempt(connIdx, outcome)
    /\ pc' = IF connIdx' > Len(servers) THEN "idle" ELSE "connect"
    /\ UNCHANGED <<servers, released, closes, loopVars>>

\* run_session_async, agent.py 90-97: refresh the system turn, append the task.
\* The REPL takes MaxTasks tasks on one transcript, and one more when the
\* ceiling is at most one step.
StartSessionKeepsPrompt(task) ==
    /\ pc = "idle"
    /\ tasks < MaxTasks + (IF max_steps <= 1 THEN 1 ELSE 0)
    /\ messages' = Append(messages, Msg("user", task))
    /\ msgs0' = messages
    /\ tasks' = tasks + 1
    /\ step' = 0
    /\ modelCalls' = 0
    /\ invocations' = <<>>
    /\ returned' = NotReturned
    /\ content' = <<>>
    /\ tool_call' = NoCall
    /\ pending' = NoPending
    /\ searched' = NoSearch
    /\ pc' = "loop"
    /\ UNCHANGED <<mcpVars, sigint, max_steps, dispatchTurns>>
StartSession(task) ==
    /\ pc = "idle"
    /\ tasks < MaxTasks + (IF max_steps <= 1 THEN 1 ELSE 0)
    /\ LET system_prompt == build_system_prompt(get_tool_docs(toolOrder))
           refreshed == IF Len(messages) > 0 /\ messages[1].role = "system"
                          THEN [messages EXCEPT ![1].content = system_prompt]
                          ELSE messages
       IN  messages' = Append(refreshed, Msg("user", task))
    /\ msgs0' = messages
    /\ tasks' = tasks + 1
    /\ step' = 0
    /\ modelCalls' = 0
    /\ invocations' = <<>>
    /\ returned' = NotReturned
    /\ content' = <<>>
    /\ tool_call' = NoCall
    /\ pending' = NoPending
    /\ searched' = NoSearch
    /\ pc' = "loop"
    /\ UNCHANGED <<mcpVars, sigint, max_steps, dispatchTurns>>

\* the REPL's /clear (__main__.py 86-89): messages is a fresh transcript; what
\* the finished invocation left behind belongs to the transcript that is gone
ClearDropsSystemTurn ==
    /\ pc = "idle"
    /\ messages' = <<>>
    /\ dispatchTurns' = {}
    /\ tasks' = 0
    /\ msgs0' = <<>>
    /\ step' = 0
    /\ modelCalls' = 0
    /\ invocations' = <<>>
    /\ returned' = NotReturned
    /\ content' = <<>>
    /\ tool_call' = NoCall
    /\ searched' = NoSearch
    /\ UNCHANGED <<pc, mcpVars, sigint, max_steps, pending>>
Clear ==
    /\ pc = "idle"
    /\ messages' = FreshTranscript
    /\ dispatchTurns' = {}
    /\ tasks' = 0
    /\ msgs0' = <<>>
    /\ step' = 0
    /\ modelCalls' = 0
    /\ invocations' = <<>>
    /\ returned' = NotReturned
    /\ content' = <<>>
    /\ tool_call' = NoCall
    /\ searched' = NoSearch
    /\ UNCHANGED <<pc, mcpVars, sigint, max_steps, pending>>

Reverse(seq) == [i \in 1..Len(seq) |-> seq[Len(seq) + 1 - i]]

\* MCPClientManager.close: self._exit_stack.aclose() runs the exit of every
\* context on the stack, last entered first, and leaves the stack empty
CloseKeepsStack ==
    /\ pc \in {"idle", "closed"}
    /\ closes < MaxCloses
    /\ released' = released \o Reverse(exitStack)
    /\ exitStack' = exitStack
    /\ closes' = closes + 1
    /\ pc' = "closed"
    /\ UNCHANGED <<servers, connIdx, sessions, tools, toolOrder, connLog, loopVars>>
Close ==
    /\ pc \in {"idle", "closed"}
    /\ closes < MaxCloses
    /\ released' = released \o Reverse(exitStack)
    /\ exitStack' = <<>>
    /\ closes' = closes + 1
    /\ pc' = "closed"
    /\ UNCHANGED <<servers, connIdx, sessions, tools, toolOrder, connLog, loopVars>>

\* for step in range(config.max_steps): is there another step
StepsLeftUnlessEqual(s, n) == s # n
StepsLeft(s, n) == s < n

\* agent.py 99-100: the next model call is issued
CallModelTwice ==
    /\ pc = "loop"
    /\ StepsLeft(step, max_steps)
    /\ modelCalls' = modelCalls + 2
    /\ pc' = "await_model"
    /\ UNCHANGED <<mcpVars, sigint, messages, max_steps, step, content, tool_call,
                   pending, returned, invocations, msgs0, tasks,
                   dispatchTurns, searched>>
CallModel ==
    /\ pc = "loop"
    /\ StepsLeft(step, max_steps)
    /\ modelCalls' = modelCalls + 1
    /\ pc' = "await_model"
    /\ UNCHANGED <<mcpVars, sigint, messages, max_steps, step, content, tool_call,
                   pending, returned, invocations, msgs0, tasks,
                   dispatchTurns, searched>>

\* agent.py 130: the range is exhausted
CeilingReached ==
    /\ pc = "loop"
    /\ ~StepsLeft(step, max_steps)
    /\ returned' = [kind |-> "value", value |-> Sentinel]
    /\ pc' = "idle"
    /\ UNCHANGED <<mcpVars, sigint, messages, max_steps, step, content, tool_call,
                   pending, modelCalls, invocations, msgs0, tasks,
                   dispatchTurns, searched>>

\* ollama_client.chat returns; content = response.message.content or ""
ModelReply(reply) ==
    /\ pc = "await_model"
    /\ content' = reply
    /\ pc' = "extract"
    /\ UNCHANGED <<mcpVars, sigint, messages, max_steps, step, tool_call, pending,
                   returned, modelCalls, invocations, msgs0, tasks,
                   dispatchTurns, searched>>

\* ollama_client.chat raises: nothing in run_session_async catches it
ModelFaultFolded ==
    /\ pc = "await_model"
    /\ messages' = Append(messages, ToolResultTurn(<<"Error:", "e">>))
    /\ dispatchTurns' = dispatchTurns \cup {Len(messages) + 1}
    /\ step' = step + 1
    /\ pc' = "loop"
    /\ UNCHANGED <<mcpVars, sigint, max_steps, content, tool_call, returned,
                   pending, modelCalls, invocations, msgs0, tasks, searched>>
ModelFaultSkipsFinally ==
    /\ pc = "await_model"
    /\ returned' = [kind |-> "raised", value |-> <<"model backend">>]
    /\ pc' = "exited"
    /\ UNCHANGED <<mcpVars, sigint, messages, max_steps, step, content, tool_call,
                   pending, modelCalls, invocations, msgs0, tasks,
                   dispatchTurns, searched>>
ModelFault ==
    /\ pc = "await_model"
    /\ returned' = [kind |-> "raised", value |-> <<"model backend">>]
    /\ pc' = "idle"
    /\ UNCHANGED <<mcpVars, sigint, messages, max_steps, step, content, tool_call,
                   pending, modelCalls, invocations, msgs0, tasks,
                   dispatchTurns, searched>>

Invocation(kind, name, server) ==
    [step |-> step, kind |-> kind, name |-> name, server |-> server]

\* agent.py 124-128: no tool call, the reply is the final answer
ReturnAnswerKeepsLooping(withReply) ==
    /\ messages' = withReply
    /\ step' = step + 1
    /\ pc' = "loop"
    /\ UNCHANGED <<returned, pending, invocations, dispatchTurns>>
ReturnAnswer(withReply) ==
    /\ messages' = withReply
    /\ returned' = [kind |-> "value", value |-> content]
    /\ pc' = "idle"
    /\ UNCHANGED <<step, pending, invocations, dispatchTurns>>

\* an exception leaves run_session_async: nothing in it catches one
Raise(withReply, exception, invs) ==
    /\ messages' = withReply
    /\ invocations' = invs
    /\ returned' = [kind |-> "raised", value |-> <<exception>>]
    /\ pc' = "idle"
    /\ UNCHANGED <<step, pending, dispatchTurns>>

\* agent.py 118: if name in NATIVE_TOOLS
UsesNativeUnlessExternal(name) == name \in NATIVE_TOOLS /\ name \notin DOMAIN tools
UsesNative(name) == name \in NATIVE_TOOLS

\* agent.py 119: result = NATIVE_TOOLS[name].execute(**args)
DispatchNative(tc, withReply) ==
    LET invs == Append(invocations, Invocation("execute", tc.tool, "native"))
    IN  IF ExecuteBinds(tc.args)
          THEN /\ messages' = withReply
               /\ invocations' = invs
               /\ pending' = [name |-> tc.tool, server |-> "native"]
               /\ pc' = "await_native"
               /\ UNCHANGED <<step, returned, dispatchTurns>>
          ELSE Raise(withReply, "TypeError", invs)

\* a result text is appended and the for loop goes on (agent.py 123)
AppendResultReplacesLast(transcript, res) ==
    /\ messages' = Append(SubSeq(transcript, 1, Len(transcript) - 1),
                          ToolResultTurn(res))
    /\ dispatchTurns' = dispatchTurns \cup {Len(transcript)}
    /\ pending' = NoPending
    /\ step' = step + 1
    /\ pc' = "loop"
    /\ UNCHANGED returned
AppendResult(transcript, res) ==
    /\ messages' = Append(transcript, ToolResultTurn(res))
    /\ dispatchTurns' = dispatchTurns \cup {Len(transcript) + 1}
    /\ pending' = NoPending
    /\ step' = step + 1
    /\ pc' = "loop"
    /\ UNCHANGED returned

\* agent.py 121: result = await mcp.call_tool(name, args), up to the await of
\* session.call_tool (mcp_client.py 81-93)
DispatchMcp(tc, withReply) ==
    LET invs == Append(invocations, Invocation("call_tool", tc.tool, "none"))
    IN  IF tc.tool \notin DOMAIN tools
          THEN /\ AppendResult(withReply, UnknownToolText(tc.tool))
               /\ invocations' = invs
        ELSE IF tools[tc.tool] \notin DOMAIN sessions
          THEN /\ AppendResult(withReply, NotConnectedText(tools[tc.tool]))
               /\ invocations' = invs
        ELSE /\ messages' = withReply
             /\ invocations' =
                  Append(invs, Invocation("session", tc.tool, sessions[tools[tc.tool]]))
             /\ pending' = [name |-> tc.tool, server |-> sessions[tools[tc.tool]]]
             /\ pc' = "await_tool"
             /\ UNCHANGED <<step, returned, dispatchTurns>>

\* agent.py 109-123 up to the point where a handler is awaited: extraction,
\* the assistant turn, the print of the arguments (args.items() raises
\* AttributeError when args is no mapping), the choice of the handler
ProcessReply ==
    /\ pc = "extract"
    /\ LET tc == Extraction(content)
           withReply == Append(messages, Msg("assistant", content))
       IN  /\ tool_call' = tc
           /\ IF ~tc.call THEN ReturnAnswer(withReply)
              ELSE IF tc.args.kind # "object"
                THEN Raise(withReply, "AttributeError", invocations)
              ELSE IF UsesNative(tc.tool) THEN DispatchNative(tc, withReply)
              ELSE DispatchMcp(tc, withReply)
    /\ UNCHANGED <<mcpVars, sigint, max_steps, content, modelCalls, msgs0, tasks,
                   searched>>

\* execute runs against its collaborators and returns its text (search.py
\* 41-76); agent.py 123 appends it
NativeReturn(b) ==
    /\ pc = "await_native"
    /\ LET limit == LimitOf(tool_call.args)
       IN  /\ searched' = Searched(limit, b)
           /\ AppendResult(messages, execute(<<"q">>, limit, b))
    /\ UNCHANGED <<mcpVars, sigint, max_steps, content, tool_call, modelCalls,
                   invocations, msgs0, tasks>>

\* session.call_tool returns or raises (mcp_client.py 92-103); agent.py 123
\* appends what call_tool made of it
ToolReturnPropagates(outcome) ==
    /\ pc = "await_tool"
    /\ IF outcome \in {"raises", "malformed"}
         THEN /\ returned' = [kind |-> "raised", value |-> <<"remote">>]
              /\ pc' = "idle"
              /\ UNCHANGED <<messages, dispatchTurns, pending, step>>
         ELSE AppendResult(messages, CallToolResult(pending.name, outcome))
    /\ UNCHANGED <<mcpVars, sigint, max_steps, content, tool_call, modelCalls,
                   invocations, msgs0, tasks, searched>>
ToolReturn(outcome) ==
    /\ pc = "await_tool"
    /\ AppendResult(messages, CallToolResult(pending.name, outcome))
    /\ UNCHANGED <<mcpVars, sigint, max_steps, content, tool_call, modelCalls,
                   invocations, msgs0, tasks, searched>>

Next ==
    \/ \E o \in ConnectOutcomes : ConnectServer(o)
    \/ \E t \in LoopTasks : StartSession(t)
    \/ Clear
    \/ Close
    \/ CallModel
    \/ CeilingReached
    \/ \E r \in Replies : ModelReply(r)
    \/ ModelFault
    \/ ProcessReply
    \/ \E b \in LoopBackends : NativeReturn(b)
    \/ \E o \in RemoteOutcomes : ToolReturn(o)

Spec == Init /\ [][Next]_vars

\* ------------------------------------------------ the search tool, any backend
\* The program with one step per task and a model that answers every call with
\* a search request, with or without a limit; the collaborators of execute
\* behave in every way of SearchBackends.
SearchReplies == {ReplyNative, ReplyNativeLimit}

InitSearch == Init /\ max_steps = 1

NextSearch ==
    \/ \E o \in ConnectOutcomes : ConnectServer(o)
    \/ \E t \in Tasks : StartSession(t)
    \/ CallModel
    \/ CeilingReached
    \/ \E r \in SearchReplies : ModelReply(r)
    \/ ProcessReply
    \/ \E b \in SearchBackends : NativeReturn(b)

SpecSearch == InitSearch /\ [][NextSearch]_vars

\* ------------------------------------------------------- one task, then close
\* run_async (agent.py 140-157) and the single-command mode of main_async
\* (__main__.py 50-59): init_mcp, a fresh transcript, one run_session_async
\* inside try, mcp.close() in the finally clause.
RunOnce(task) == tasks = 0 /\ StartSession(task)

\* finally: await mcp.close(), reached when run_session_async returned or
\* raised
FinallyClose == pc = "idle" /\ returned.kind # "none" /\ Close

NextOnce ==
    \/ \E o \in ConnectOutcomes : ConnectServer(o)
    \/ \E t \in LoopTasks : RunOnce(t)
    \/ CallModel
    \/ CeilingReached
    \/ \E r \in Replies : ModelReply(r)
    \/ ModelFault
    \/ ProcessReply
    \/ \E b \in LoopBackends : NativeReturn(b)
    \/ \E o \in RemoteOutcomes : ToolReturn(o)
    \/ FinallyClose

\* the coroutine keeps running, and every model call and every handler call
\* comes back (with a result or with an exception)
SpecOnce == Init /\ [][NextOnce]_vars /\ WF_vars(NextOnce)

\* ------------------------------------------------------- at the step ceiling
\* Config.load takes max_steps from the file or from MAX_STEPS as any integer
\* (config.py 80, 87): here the ceilings from MaxBelow below zero up to one
\* step, with a model that may answer with the very words of the sentinel.
LowCeilings == (0 - MaxBelow)..1

CeilingReplies == {ReplyPlain, ReplySentinel, ReplyNative, ReplyMcp}

InitCeiling == servers = Servers /\ max_steps \in LowCeilings /\ Constructed

NextCeiling ==
    \/ \E o \in ConnectOutcomes : ConnectServer(o)
    \/ \E t \in LoopTasks : StartSession(t)
    \/ Clear
    \/ Close
    \/ CallModel
    \/ CeilingReached
    \/ \E r \in CeilingReplies : ModelReply(r)
    \/ ModelFault
    \/ ProcessReply
    \/ \E b \in LoopBackends : NativeReturn(b)
    \/ \E o \in RemoteOutcomes : ToolReturn(o)

SpecCeiling == InitCeiling /\ [][NextCeiling]_vars

\* ------------------------------------------------ any configured server list
\* The program connected to any list of ServerLists, with a model that asks
\* for the external read_file or answers in plain words.
ServerReplies == {ReplyMcp, ReplyPlain}

InitServers ==
    servers \in ServerLists /\ max_steps \in StepCeilings /\ Constructed

NextServers ==
    \/ \E o \in ConnectOutcomes : ConnectServer(o)
    \/ \E t \in LoopTasks : StartSession(t)
    \/ CallModel
    \/ CeilingReached
    \/ \E r \in ServerReplies : ModelReply(r)
    \/ ProcessReply
    \/ \E o \in RemoteOutcomes : ToolReturn(o)

SpecServers == InitServers /\ [][NextServers]_vars

\* ------------------------------------------------------ the REPL under SIGINT
\* What a SIGINT does depends on the interpreter.  Under asyncio.run of
\* Python 3.11 and later the first SIGINT asks for the cancellation of the main
\* task ("cancel"): the request takes effect where the task next waits on the
\* event loop, which in run_session_async is only the await of
\* session.call_tool; ollama_client.chat and execute are blocking calls that
\* run on.  Before 3.11, and for a second SIGINT, KeyboardInterrupt is raised
\* where the program is ("raise").
InterruptModes == {"raise", "cancel"}

\* the signal arrives during the model call, between the assistant turn and
\* the dispatch, or during the invocation
InterruptPoints == {"await_model", "extract", "await_native", "await_tool"}

Arrival(mode, transcript) ==
    [arrived |-> TRUE, requested |-> FALSE, mode |-> mode, point |-> pc,
     task |-> tasks, calls |-> modelCalls, transcript |-> transcript]

\* the exception leaves main_async through its finally clause, which awaits
\* mcp.close(), and asyncio.run returns to main (__main__.py 173-182)
LeaveRepl(exception) ==
    /\ returned' = [kind |-> "raised", value |-> <<exception>>]
    /\ pending' = NoPending
    /\ released' = released \o Reverse(exitStack)
    /\ exitStack' = <<>>
    /\ closes' = closes + 1
    /\ pc' = "closed"

\* the except KeyboardInterrupt clause of the REPL (__main__.py 168-169)
BackToPrompt ==
    /\ returned' = [kind |-> "raised", value |-> <<"KeyboardInterrupt">>]
    /\ pending' = NoPending
    /\ pc' = "idle"
    /\ UNCHANGED <<released, exitStack, closes>>

Interrupt(mode) ==
    /\ pc \in InterruptPoints
    /\ pc = "extract" => extract_tool_call(content).call
    /\ ~sigint.arrived
    /\ LET withReply == IF pc = "extract"
                          THEN Append(messages, Msg("assistant", content))
                          ELSE messages
       IN  IF pc = "await_tool"
             THEN /\ LeaveRepl(IF mode = "raise" THEN "KeyboardInterrupt"
                               ELSE "CancelledError")
                  /\ sigint' = Arrival(mode, messages)
                  /\ UNCHANGED <<messages, tool_call>>
           ELSE IF mode = "raise"
             THEN /\ BackToPrompt
                  /\ messages' = withReply
                  /\ tool_call' = IF pc = "extract" THEN extract_tool_call(content)
                                  ELSE tool_call
                  /\ sigint' = Arrival(mode, withReply)
           ELSE /\ sigint' = [Arrival(mode, messages) EXCEPT !.requested = TRUE]
                /\ UNCHANGED <<pc, returned, pending, released, exitStack, closes,
                               messages, tool_call>>
    /\ UNCHANGED <<servers, connIdx, sessions, tools, toolOrder, connLog,
                   max_steps, step, content, modelCalls, invocations, msgs0,
                   tasks, dispatchTurns, searched>>

\* the requested cancellation is delivered at the await of session.call_tool
Cancelled ==
    /\ pc = "await_tool"
    /\ sigint.requested
    /\ LeaveRepl("CancelledError")
    /\ sigint' = [sigint EXCEPT !.requested = FALSE]
    /\ UNCHANGED <<servers, connIdx, sessions, tools, toolOrder, connLog,
                   messages, max_steps, step, content, tool_call, modelCalls,
                   invocations, msgs0, tasks, dispatchTurns, searched>>

NextInterrupt ==
    \/ \E o \in ConnectOutcomes : ConnectServer(o)
    \/ \E t \in LoopTasks : StartSession(t)
    \/ CallModel
    \/ CeilingReached
    \/ \E r \in Replies : ModelReply(r)
    \/ ProcessReply
    \/ \E b \in LoopBackends : NativeReturn(b)
    \/ \E o \in RemoteOutcomes : ~sigint.requested /\ ToolReturn(o)
    \/ \E m \in InterruptModes : Interrupt(m)
    \/ Cancelled

SpecInterrupt == Init /\ [][NextInterrupt]_vars

\* ------------------------------------------------- the extractor on any text
\* The program just after the model answered, in the last step of its ceiling,
\* with both servers connected: the reply is any text of Texts.
InitExtract ==
    /\ pc = "extract"
    /\ servers = Servers
    /\ connIdx = Len(Servers) + 1
    /\ sessions = [n \in Range(Servers) |-> n]
    /\ tools = [n \in {"read_file", "semantic_search"} |->
                  IF n = "read_file" THEN "contrast" ELSE "filesystem"]
    /\ toolOrder = <<"read_file", "semantic_search">>
    /\ exitStack = <<<<"stdio_client", "filesystem">>, <<"ClientSession", "filesystem">>,
                     <<"stdio_client", "contrast">>, <<"ClientSession", "contrast">>>>
    /\ released = <<>>
    /\ closes = 0
    /\ connLog = <<"ok", "ok">>
    /\ messages = <<Msg("system", build_system_prompt(get_tool_docs(toolOrder))),
                    Msg("user", <<"w">>)>>
    /\ max_steps = 1
    /\ step = 0
    /\ content \in Texts
    /\ tool_call = NoCall
    /\ pending = NoPending
    /\ returned = NotReturned
    /\ modelCalls = 1
    /\ invocations = <<>>
    /\ msgs0 = FreshTranscript
    /\ tasks = 1
    /\ dispatchTurns = {}
    /\ searched = NoSearch
    /\ sigint = NoInterrupt

SpecExtract == InitExtract /\ [][ProcessReply]_vars

\* ================================================================= claims
\* the turns the current invocation appended, and its first reply
Base == Len(msgs0)
Extractable(t) == extract_tool_call(t).call
AssistantTurns == {i \in (Base + 1)..Len(messages) : messages[i].role = "assistant"}
ResultTurns ==
    {i \in (Base + 2)..Len(messages) :
        messages[i].role = "user" /\ messages[i].content[1] = "TR"}
Ended == pc \in {"idle", "closed"} /\ returned.kind # "none"
ModelFaulted == returned = [kind |-> "raised", value |-> <<"model backend">>]

\* C1: when the first reply of an invocation holds no extractable tool call,
\* the invocation is over with one model call, no handler call, exactly the
\* task turn and that reply as assistant turn appended, and the reply returned.
C1_PlainReplyEndsAfterOneStep ==
    (tasks >= 1 /\ Len(messages) >= Base + 2
       /\ ~Extractable(messages[Base + 2].content))
    => /\ max_steps >= 1
       /\ Ended
       /\ returned = [kind |-> "value", value |-> messages[Base + 2].content]
       /\ modelCalls = 1
       /\ invocations = <<>>
       /\ Len(messages) = Base + 2
       /\ messages[Base + 1].role = "user"
       /\ messages[Base + 2].role = "assistant"
       /\ SubSeq(messages, 2, Base) = SubSeq(msgs0, 2, Base)

C1_Witness ==
    /\ Ended
    /\ returned = [kind |-> "value", value |-> ReplyPlain]
    /\ messages[Len(messages)] = Msg("assistant", ReplyPlain)
    /\ modelCalls = 1

\* C2 (as claimed): an invocation whose every reply yielded an extractable
\* tool call ends with the sentinel after exactly max_steps model calls, with
\* the task turn, max_steps assistant turns and max_steps tool-result turns
\* appended.
C2_CeilingRunAsClaimed ==
    (Ended /\ ~ModelFaulted
       /\ \A i \in AssistantTurns : Extractable(messages[i].content))
    => /\ returned = [kind |-> "value", value |-> Sentinel]
       /\ modelCalls = max_steps
       /\ Len(messages) = Base + 1 + 2 * max_steps
       /\ Cardinality(AssistantTurns) = max_steps
       /\ Cardinality(ResultTurns) = max_steps

\* C3 (as claimed): the only fault that reaches the caller of
\* run_session_async is a fault of the model backend.
C3_OnlyModelFaultsReachCallerAsClaimed ==
    returned.kind = "raised" => ModelFaulted

\* C4 (as claimed): once a reply naming a tool that is neither native nor in
\* mcp.tools has been processed, no session was invoked for it, the transcript
\* ends with the unknown-tool result turn, and the loop went on without raising.
UnknownCallProcessed ==
    /\ tasks >= 1
    /\ tool_call.call
    /\ tool_call.tool \notin NATIVE_TOOLS
    /\ tool_call.tool \notin DOMAIN tools

C4_UnknownToolAsClaimed ==
    UnknownCallProcessed
    => /\ messages[Len(messages)] = ToolResultTurn(UnknownToolText(tool_call.tool))
       /\ messages[Len(messages) - 1].role = "assistant"
       /\ invocations # <<>>
       /\ invocations[Len(invocations)].kind = "call_tool"
       /\ invocations[Len(invocations)].name = tool_call.tool
       /\ returned.kind = "raised" => ModelFaulted
       /\ returned.kind = "value" => returned.value = Sentinel

\* C5: a name that is both in NATIVE_TOOLS and in mcp.tools is dispatched to
\* the built-in handler only: no call_tool and no session call carries it, and
\* a processed call of it with a mapping as args has execute as the step's
\* only handler call.
Colliding == NATIVE_TOOLS \cap DOMAIN tools
HandlerCallsOfStep(k) == {i \in 1..Len(invocations) : invocations[i].step = k}

C5_BuiltinWins ==
    /\ \A i \in 1..Len(invocations) :
          invocations[i].name \in Colliding => invocations[i].kind = "execute"
    /\ pending.name \in Colliding => pending.server = "native"
    /\ (tasks >= 1 /\ tool_call.call /\ tool_call.tool \in Colliding
          /\ tool_call.args.kind = "object")
       => /\ invocations # <<>>
          /\ invocations[Len(invocations)].kind = "execute"
          /\ invocations[Len(invocations)].name = tool_call.tool
          /\ Cardinality(HandlerCallsOfStep(invocations[Len(invocations)].step)) = 1

C5_Witness ==
    /\ "semantic_search" \in Colliding
    /\ pc = "await_native"
    /\ invocations[Len(invocations)].kind = "execute"
    /\ invocations[Len(invocations)].name = "semantic_search"

\* the servers, by list index, whose connect got through discovery and that
\* advertise the name
Advertisers(name) ==
    {i \in 1..Len(connLog) : connLog[i] = "ok" /\ name \in Range(Advertised(Servers[i]))}
Contested == {name \in DOMAIN tools : Cardinality(Advertisers(name)) >= 2}
Occurrences(seq, x) == Cardinality({i \in 1..Len(seq) : seq[i] = x})

\* C6 (as claimed): a name discovered by two connected servers keeps the
\* origin of the server that registered it first.
C6_FirstRegisteredWinsAsClaimed ==
    \A name \in Contested : tools[name] = Servers[SetMin(Advertisers(name))]

\* C6 (amended): a name discovered by two connected servers has one entry,
\* whose origin is the server that registered it LAST; session calls of the
\* name go to that server; connect goes through the whole list without
\* raising.
C6_LastRegisteredWins ==
    /\ \A name \in Contested :
          /\ tools[name] = Servers[SetMax(Advertisers(name))]
          /\ Occurrences(toolOrder, name) = 1
    /\ \A i \in 1..Len(invocations) :
          (invocations[i].kind = "session" /\ invocations[i].name \in Contested)
          => invocations[i].server = Servers[SetMax(Advertisers(invocations[i].name))]
    /\ pc # "connect" => Len(connLog) = Len(Servers)

C6_Witness ==
    /\ "read_file" \in Contested
    /\ pc = "await_tool"
    /\ pending = [name |-> "read_file", server |-> "contrast"]

\* ------------------------------------------------------ claims on any text
Processed == pc # "extract"

\* the spans of a text that json.loads reads as an object
ObjectSpans(t) ==
    {sp \in (1..Len(t)) \X (1..Len(t)) :
        /\ sp[1] < sp[2]
        /\ t[sp[1]] = "{"
        /\ t[sp[2]] = "}"
        /\ json_loads(SubSeq(t, sp[1], sp[2])).ok}
SpanData(t, sp) == json_loads(SubSeq(t, sp[1], sp[2]))
ToolSpans(t) == {sp \in ObjectSpans(t) : "tool" \in SpanData(t, sp).val.keys}
PlainSpans(t) == ObjectSpans(t) \ ToolSpans(t)
\* what a tool-keyed span encodes: its "tool" value and its "args" or {}
Encoded(t, sp) ==
    LET mem == SpanData(t, sp).mem
    IN  [call |-> TRUE, tool |-> mem["tool"].canon[1],
         args |-> IF "args" \in DOMAIN mem THEN mem["args"] ELSE EmptyDict]
TheSpan(S) == CHOOSE sp \in S : TRUE
Leftmost(S) == CHOOSE sp \in S : \A o \in S : sp[1] <= o[1]

\* C7 (as claimed): a text with one well-formed fenced action block, which is
\* also the first fence of the text that a brace follows, yields the tool name
\* and args that block encodes, whatever surrounds it.
FencedActionBlocks(t) ==
    {sp \in ToolSpans(t) : /\ sp[1] > 1
                           /\ IsFence(t[sp[1] - 1])
                           /\ sp[2] < Len(t)
                           /\ IsFence(t[sp[2] + 1])}

FirstFencedBrace(t) ==
    SetMin({i \in 2..Len(t) : t[i] = "{" /\ IsFence(t[i - 1])})

C7_FencedBlockReturnedAsClaimed ==
    (Processed /\ Cardinality(FencedActionBlocks(content)) = 1
       /\ TheSpan(FencedActionBlocks(content))[1] = FirstFencedBrace(content))
    => tool_call = Encoded(content, TheSpan(FencedActionBlocks(content)))

\* a tool-keyed object inside an outer object that parses and has no "tool"
Nested(t, sp) == \E o \in PlainSpans(t) : o[1] < sp[1] /\ sp[2] < o[2]
NestedOnly(t) == ToolSpans(t) # {} /\ \A sp \in ToolSpans(t) : Nested(t, sp)

\* C8 (as claimed): a text whose only tool-keyed objects are nested inside an
\* unrelated outer object yields none.
C8_NestedNeverReturnedAsClaimed ==
    (Processed /\ NestedOnly(content)) => tool_call = NoCall

\* C8 (amended): for such a text the outer object is not returned, but the
\* scan resumes inside it: the result is the leftmost nested tool-keyed object
\* whose brace count, taken from its own opening brace, ends at its closing
\* brace, and none only when there is no such object.
Scannable(t) == {sp \in ToolSpans(t) : BalancedEnd(t, sp[1]) = sp[2]}

C8_NestedIsReturned ==
    (Processed /\ NestedOnly(content))
    => tool_call = IF Scannable(content) = {} THEN NoCall
                   ELSE Encoded(content, Leftmost(Scannable(content)))

C8_Witness ==
    /\ Processed
    /\ NestedOnly(content)
    /\ tool_call.call
    /\ tool_call.tool = "semantic_search"

\* C9 (as claimed): brace fragments that do not parse, followed by one
\* well-formed top-level object with a "tool" key that ends the text, are
\* skipped and that object's tool name and args are returned.
MalformedThenAction(t) ==
    /\ Cardinality(ToolSpans(t)) = 1
    /\ LET sp == TheSpan(ToolSpans(t))
       IN  /\ sp[2] = Len(t)
           /\ \E i \in 1..(sp[1] - 1) : t[i] = "{"
           /\ \A o \in PlainSpans(t) : sp[1] < o[1]

C9_MalformedSkippedAsClaimed ==
    (Processed /\ MalformedThenAction(content))
    => tool_call = Encoded(content, TheSpan(ToolSpans(content)))

\* C10: a text with no opening brace, and more generally with no brace
\* delimited span that parses to an object with a "tool" key, yields none, and
\* the loop appends it as the assistant turn and returns it as the answer
\* without calling a handler.
C10_NoStructureIsFinalAnswer ==
    (Processed /\ ToolSpans(content) = {})
    => /\ tool_call = NoCall
       /\ Ended
       /\ returned = [kind |-> "value", value |-> content]
       /\ messages[Len(messages)] = Msg("assistant", content)
       /\ invocations = <<>>

C10_Witness ==
    /\ Processed
    /\ PlainSpans(content) # {}
    /\ ToolSpans(content) = {}
    /\ \E i \in 1..Len(content) : IsFence(content[i])
    /\ returned = [kind |-> "value", value |-> content]

\* ------------------------------------------------------------ later claims
\* C11: every extracted call is a tool-keyed object of the text: its tool name
\* is that object's "tool" value, its args are that object's "args" member
\* when it has one and the empty mapping when it has none; a text none of
\* whose tool-keyed objects has "args" yields the empty mapping.
C11_MissingArgsDefaultToEmpty ==
    (Processed /\ tool_call.call)
    => /\ \E sp \in ToolSpans(content) :
            /\ tool_call.tool = SpanData(content, sp).mem["tool"].canon[1]
            /\ IF "args" \in SpanData(content, sp).val.keys
                 THEN tool_call.args = SpanData(content, sp).mem["args"]
                 ELSE tool_call.args = EmptyDict
       /\ (\A sp \in ToolSpans(content) : "args" \notin SpanData(content, sp).val.keys)
          => /\ tool_call.args.kind = "object"
             /\ tool_call.args.keys = {}

C11_Witness ==
    /\ Processed
    /\ Method1(content).call
    /\ \A sp \in ToolSpans(content) : "args" \notin SpanData(content, sp).val.keys
    /\ tool_call.tool = "semantic_search"
    /\ tool_call.args = EmptyDict

\* C12: a server whose transport start or session.initialize failed is the
\* origin of no entry of mcp.tools and of no line of get_tool_docs, has no
\* session, and no session call was or is sent to it.
HandshakeFailed ==
    {Servers[i] : i \in {j \in 1..Len(connLog) :
                           connLog[j] \in {"transport_fails", "handshake_fails"}}}

C12_FailedHandshakeExcluded ==
    \A s \in HandshakeFailed :
       /\ \A n \in DOMAIN tools : tools[n] # s
       /\ \A k \in 1..Len(get_tool_docs(toolOrder)) :
             /\ get_tool_docs(toolOrder)[k] \in DOMAIN tools
             /\ tools[get_tool_docs(toolOrder)[k]] # s
       /\ s \notin DOMAIN sessions
       /\ \A i \in 1..Len(invocations) : invocations[i].server # s
       /\ pending.server # s

C12_Witness ==
    /\ connLog = <<"ok", "handshake_fails">>
    /\ pc = "await_tool"
    /\ pending = [name |-> "read_file", server |-> "filesystem"]

\* C13: a session call that was awaited never ends the invocation: while it is
\* awaited nothing was returned or raised, and once it is over its step has a
\* tool-result turn holding the remote text or the error text of call_tool.
RemoteResultTexts(name) ==
    {<<"TR", "remote text">>, <<"TR">> \o CallErrorText(name)}

C13_RemoteFailureIsText ==
    \A i \in 1..Len(invocations) :
       invocations[i].kind = "session"
       => IF invocations[i].step = step
            THEN pc = "await_tool" /\ returned.kind = "none"
            ELSE LET turn == messages[Base + 3 + 2 * invocations[i].step]
                 IN  /\ turn.role = "user"
                     /\ turn.content \in RemoteResultTexts(invocations[i].name)

C13_Witness ==
    /\ pc = "loop"
    /\ messages[Len(messages)] = ToolResultTurn(CallErrorText("read_file"))
    /\ invocations[Len(invocations)].kind = "session"

\* C14: before the first close every entered context is on the exit stack and
\* none was released; after one or more closes the stack is empty and every
\* context a connect attempt entered, failed attempts included, was released
\* exactly once.
Opened ==
    UNION {Range(Entered(Servers[i], connLog[i])) : i \in 1..Len(connLog)}

C14_CloseReleasesOnce ==
    /\ closes = 0 => released = <<>> /\ Range(exitStack) = Opened
    /\ closes >= 1 => /\ pc = "closed"
                      /\ exitStack = <<>>
                      /\ Range(released) = Opened
                      /\ \A c \in Opened : Occurrences(released, c) = 1

C14_Witness ==
    /\ closes = 2
    /\ connLog = <<"handshake_fails", "ok">>
    /\ Len(released) = 4

\* C15: the transcript always begins with a system turn and holds exactly one
\* system turn, through invocations and /clear.
SystemTurns == {i \in 1..Len(messages) : messages[i].role = "system"}

C15_OneSystemTurnFirst == Len(messages) >= 1 /\ SystemTurns = {1}

C15_Witness ==
    /\ Ended
    /\ tasks = 1
    /\ Len(messages) >= 3
    /\ messages[1].content # <<>>

\* C16: a step taken while the model call is awaited is either the reply or
\* the fault; the fault reaches the caller as a raised model-backend fault and
\* leaves the transcript as it was: the task turn and the assistant and
\* tool-result turns of the steps before it.
C16_ModelFaultLeavesTranscript ==
    [][(pc = "await_model" /\ pc' # "extract")
       => /\ pc' = "idle"
          /\ returned' = [kind |-> "raised", value |-> <<"model backend">>]
          /\ messages' = messages
          /\ dispatchTurns' = dispatchTurns
          /\ Len(messages) = Base + 1 + 2 * step
          /\ messages[Base + 1].role = "user"
          /\ \A k \in 1..step :
                /\ messages[Base + 2 * k].role = "assistant"
                /\ messages[Base + 2 * k + 1].role = "user"
                /\ (Base + 2 * k + 1) \in dispatchTurns]_vars

C16_Witness ==
    /\ ModelFaulted
    /\ step = 1
    /\ Len(messages) = Base + 3
    /\ messages[Len(messages)].role = "user"

\* C17 (as claimed): the documentation lines of the system prompt hold each
\* name of the merged namespace (mcp.tools and NATIVE_TOOLS) exactly once.
DocLines == Tail(messages[1].content)
MergedNames == DOMAIN tools \cup NATIVE_TOOLS

C17_OneLinePerCapabilityAsClaimed ==
    tasks >= 1
    => /\ Range(DocLines) = MergedNames
       /\ \A n \in MergedNames : Occurrences(DocLines, n) = 1

\* C18 (as claimed): the user turns that begin with "Tool result:" are exactly
\* the turns a dispatch appended.
\* m.get("content", "").startswith("Tool result:")
StartsWithToolResult(c) == Len(c) >= 1 /\ c[1] = "TR"
user_msgs == {i \in 1..Len(messages) : messages[i].role = "user"}
tool_results == {i \in user_msgs : StartsWithToolResult(messages[i].content)}

C18_PrefixClassifiesAsClaimed ==
    /\ dispatchTurns \subseteq tool_results
    /\ tool_results \subseteq dispatchTurns

\* C19: once execute ran, nothing was raised and the step has its result
\* turn: the text begins with "Search error:" when embed or the store raised,
\* is "No results found." when no point came back, and else holds one section
\* per point; the store was asked with the limit of the call, 5 when the call
\* names none, and gave back no more points than that.
C19_SearchNeverRaises ==
    searched # NoSearch
    => /\ returned.kind # "raised"
       /\ Len(messages) \in dispatchTurns
       /\ LET r == Tail(messages[Len(messages)].content)
          IN  IF searched.embed = "raises" \/ searched.store = "raises"
                THEN r[1] = "Search error:"
              ELSE IF searched.points = 0 THEN r = <<"No results found.">>
              ELSE /\ Len(r) = searched.points
                   /\ \A k \in 1..Len(r) : r[k] = "## path"
       /\ searched.store # "not called"
          => /\ searched.limit = IF "limit" \in tool_call.args.keys THEN 2 ELSE 5
             /\ searched.points <= searched.limit

C19_Witness ==
    /\ searched = [embed |-> "ok", store |-> "ok", limit |-> 2, points |-> 2]
    /\ messages[Len(messages)] = ToolResultTurn(<<"## path", "## path">>)

\* C20: connect attempts the servers one after the other whatever the earlier
\* attempts did, ends with every server attempted, and every server whose
\* attempt succeeded has its session and all its tools in the registry.
C20_ConnectFailuresIndependent ==
    /\ Len(connLog) = connIdx - 1
    /\ pc = "connect" <=> connIdx <= Len(Servers)
    /\ \A i \in 1..Len(connLog) :
          connLog[i] = "ok"
          => /\ Servers[i] \in DOMAIN sessions
             /\ sessions[Servers[i]] = Servers[i]
             /\ Range(Advertised(Servers[i])) \subseteq DOMAIN tools
             /\ Range(Advertised(Servers[i])) \subseteq Range(toolOrder)

C20_Witness ==
    /\ connLog = <<"transport_fails", "ok">>
    /\ pc = "idle"
    /\ tools["read_file"] = "contrast"
    /\ DOMAIN sessions = {"contrast"}

\* C21: a server whose session.initialize returned and whose
\* session.list_tools raised is the origin of no entry of mcp.tools (the
\* registry holds exactly what the servers that answered advertised), and the
\* failure stops nothing: connect goes on to the next server and ends with
\* every server attempted.
DiscoveryFailed ==
    {Servers[i] : i \in {j \in 1..Len(connLog) : connLog[j] = "discovery_fails"}}

Discovered ==
    UNION {Range(Advertised(Servers[i])) :
             i \in {j \in 1..Len(connLog) : connLog[j] = "ok"}}

C21_DiscoveryFailureContributesNothing ==
    /\ \A s \in DiscoveryFailed : \A n \in DOMAIN tools : tools[n] # s
    /\ DOMAIN tools = Discovered
    /\ Range(toolOrder) = Discovered
    /\ DiscoveryFailed # {} => Len(connLog) = connIdx - 1
    /\ (DiscoveryFailed # {} /\ pc # "connect") => Len(connLog) = Len(Servers)

C21_Witness ==
    /\ connLog = <<"discovery_fails", "ok">>
    /\ pc = "await_tool"
    /\ DOMAIN tools = {"read_file"}
    /\ tools["read_file"] = "contrast"
    /\ pending.server = "contrast"

\* C22 (as claimed): an invocation makes at most max_steps model calls and
\* takes at most max_steps steps, and when it is over and every model call
\* returned, it ended in one of two ways: the last reply held no extractable
\* tool call and is the value returned, or the ceiling was exhausted after
\* max_steps model calls and the sentinel is the value returned; a failing
\* dispatch ends no invocation.
EndedByPlainReply ==
    /\ Len(messages) >= Base + 2
    /\ messages[Len(messages)].role = "assistant"
    /\ ~Extractable(messages[Len(messages)].content)
    /\ returned = [kind |-> "value", value |-> messages[Len(messages)].content]

EndedByCeiling ==
    /\ returned = [kind |-> "value", value |-> Sentinel]
    /\ step = max_steps
    /\ modelCalls = max_steps

DispatchFailed ==
    /\ returned.kind = "raised"
    /\ returned.value \in {<<"TypeError">>, <<"AttributeError">>}

C22_BoundedAndEndsOnlyNormallyAsClaimed ==
    /\ modelCalls <= max_steps
    /\ step <= max_steps
    /\ (Ended /\ ~ModelFaulted) => (EndedByPlainReply \/ EndedByCeiling)

\* C23 (as claimed): a text with a well-formed fenced action block yields what
\* the leftmost such block encodes, also when a bare tool-keyed object stands
\* before it; a text without one yields the tool-keyed object at the leftmost
\* opening brace whose brace-balanced span parses, each failed brace being
\* followed by the next opening brace, and none when there is no such object.
C23_OrderedExtractionAsClaimed ==
    Processed
    => tool_call =
         IF FencedActionBlocks(content) # {}
           THEN Encoded(content, Leftmost(FencedActionBlocks(content)))
         ELSE IF Scannable(content) # {}
           THEN Encoded(content, Leftmost(Scannable(content)))
         ELSE NoCall

\* C24 (as claimed): every assistant turn of the invocation that holds an
\* extractable tool call has exactly one handler dispatched for its step and
\* is either the last turn while that handler is awaited or directly followed
\* by the tool-result turn of the dispatch; a model call is awaited only when
\* the transcript ends with a user turn, and after as many result turns as
\* model calls went before.
StepOfTurn(i) == (i - Base - 2) \div 2
HandlersOfStep(k) ==
    {j \in 1..Len(invocations) :
        invocations[j].step = k /\ invocations[j].kind \in {"execute", "call_tool"}}

C24_StepEventsInOrderAsClaimed ==
    /\ \A i \in AssistantTurns :
          Extractable(messages[i].content)
          => /\ Cardinality(HandlersOfStep(StepOfTurn(i))) = 1
             /\ IF i = Len(messages)
                  THEN pc \in {"await_native", "await_tool"}
                  ELSE i + 1 \in ResultTurns /\ i + 1 \in dispatchTurns
    /\ pc = "await_model"
       => /\ messages[Len(messages)].role = "user"
          /\ Cardinality(ResultTurns) = modelCalls - 1
          /\ Cardinality(AssistantTurns) = modelCalls - 1

\* C25: at every moment of an invocation at most one operation is
\* outstanding: the model calls issued and not yet answered plus the handlers
\* dispatched and not yet finished are at most one, a handler is awaited
\* exactly when one is pending, and the model calls issued are one for each
\* step begun.
ModelCallsAnswered ==
    Cardinality(AssistantTurns)
      + (IF pc = "extract" THEN 1 ELSE 0)
      + (IF ModelFaulted THEN 1 ELSE 0)

HandlersDispatched ==
    Cardinality({j \in 1..Len(invocations) :
                    invocations[j].kind \in {"execute", "call_tool"}})

HandlersFinished ==
    Cardinality(dispatchTurns \cap ((Base + 1)..Len(messages)))
      + (IF returned = [kind |-> "raised", value |-> <<"TypeError">>] THEN 1 ELSE 0)

MidStep == pc \in {"await_model", "extract", "await_native", "await_tool"}

C25_OneOperationOutstanding ==
    /\ (modelCalls - ModelCallsAnswered) + (HandlersDispatched - HandlersFinished)
         \in {0, 1}
    /\ modelCalls - ModelCallsAnswered = (IF pc = "await_model" THEN 1 ELSE 0)
    /\ HandlersDispatched - HandlersFinished
         = (IF pc \in {"await_native", "await_tool"} THEN 1 ELSE 0)
    /\ pending # NoPending <=> pc \in {"await_native", "await_tool"}
    /\ MidStep => modelCalls = step + 1
    /\ pc = "loop" => modelCalls = step
    /\ modelCalls \in {step, step + 1}

C25_Witness ==
    /\ pc = "await_tool"
    /\ step = 1
    /\ modelCalls = 2
    /\ pending.name = "read_file"
    /\ HandlersDispatched = 2

\* C26: within an invocation the transcript only grows at its end.  The turns
\* after the system turn that the transcript held when the invocation began
\* are still there, unchanged and in place, in every later state; every step
\* of the invocation keeps every turn it found, the first (the refresh of
\* lines 90-94) up to the content of the system turn.
InInvocation == pc \in {"loop", "await_model", "extract", "await_native", "await_tool"}

KeepsTurns ==
    /\ Len(messages') >= Len(messages)
    /\ \A i \in 2..Len(messages) : messages'[i] = messages[i]
    /\ Len(messages) >= 1 => messages'[1].role = messages[1].role

C26_TranscriptAppendOnly ==
    /\ [](/\ Len(messages) >= Len(msgs0)
          /\ \A i \in 2..Len(msgs0) : messages[i] = msgs0[i])
    /\ [][(InInvocation \/ InInvocation')
            => /\ KeepsTurns
               /\ InInvocation => messages'[1] = messages[1]]_vars

C26_Witness ==
    /\ tasks = 2
    /\ Len(msgs0) = 4
    /\ msgs0[3].role = "assistant"
    /\ pc = "loop"
    /\ step = 1
    /\ Len(messages) = Base + 3
    /\ Base + 3 \in dispatchTurns

\* C27: from the moment an invocation has begun, before its first model call,
\* the system turn is the prompt rendered from the registry, and no step of
\* the invocation changes the system turn, mcp.tools or mcp.sessions: every
\* model call of the invocation is made with the same documented tools.
RenderedPrompt == Msg("system", build_system_prompt(get_tool_docs(toolOrder)))

C27_PromptAndRegistryStable ==
    /\ [](/\ InInvocation => messages[1] = RenderedPrompt
          /\ (pc = "idle" /\ tasks >= 1) => messages[1] = RenderedPrompt)
    /\ [][InInvocation => /\ messages'[1] = messages[1]
                          /\ tools' = tools
                          /\ toolOrder' = toolOrder
                          /\ sessions' = sessions]_vars

C27_Witness ==
    /\ pc = "await_model"
    /\ step = 1
    /\ modelCalls = 2
    /\ messages[1].content = <<"PROMPT", "read_file", "semantic_search">>
    /\ DOMAIN tools = {"read_file"}

\* C28 (as claimed): once a SIGINT has arrived during a step, the invocation
\* it interrupted is over with the interrupt raised to its caller, no further
\* model call was made, and the transcript is the one of the moment of the
\* interrupt; in every later state that transcript is still the beginning of
\* the transcript.
IsPrefix(a, b) == Len(a) <= Len(b) /\ SubSeq(b, 1, Len(a)) = a

C28_InterruptAbortsAsClaimed ==
    sigint.arrived
    => /\ IsPrefix(sigint.transcript, messages)
       /\ tasks = sigint.task
          => /\ pc \in {"idle", "closed"}
             /\ returned.kind = "raised"
             /\ returned.value \in {<<"KeyboardInterrupt">>, <<"CancelledError">>}
             /\ messages = sigint.transcript
             /\ modelCalls = sigint.calls

\* C29 (as claimed): for any configured list, every session that call_tool
\* invokes for a name is the session of the connection whose list_tools answer
\* put the descriptor now registered under that name into mcp.tools.
Discoverers(name) ==
    {i \in 1..Len(connLog) :
        connLog[i] = "ok" /\ name \in Range(Advertised(servers[i]))}
DiscoveredBy(name) == servers[SetMax(Discoverers(name))]

SessionInvocations ==
    {i \in 1..Len(invocations) : invocations[i].kind = "session"}

C29_RoutedToDiscovererAsClaimed ==
    /\ \A i \in SessionInvocations :
          /\ Discoverers(invocations[i].name) # {}
          /\ invocations[i].server = DiscoveredBy(invocations[i].name)
    /\ pc = "await_tool"
       => /\ Discoverers(pending.name) # {}
          /\ pending.server = DiscoveredBy(pending.name)

\* C30 (as claimed): for every connection attempted, list_tools is sent
\* exactly once and directly after initialize when initialize returned, and
\* not at all when it did not; sessions are invoked only after connect is
\* through, and only sessions whose initialize and list_tools both returned.
HandshakeDone(i) == connLog[i] \in {"discovery_fails", "ok"}
ListToolsCalls(i) ==
    {k \in 1..Len(SessionCalls(connLog[i])) : SessionCalls(connLog[i])[k] = "list_tools"}
Ready == {servers[i] : i \in {j \in 1..Len(connLog) : connLog[j] = "ok"}}

C30_ProtocolOrderAsClaimed ==
    /\ \A i \in 1..Len(connLog) :
          IF HandshakeDone(i)
            THEN /\ Cardinality(ListToolsCalls(i)) = 1
                 /\ \A k \in ListToolsCalls(i) :
                       k > 1 /\ SessionCalls(connLog[i])[k - 1] = "initialize"
            ELSE ListToolsCalls(i) = {}
    /\ SessionInvocations # {} => pc # "connect"
    /\ \A i \in SessionInvocations : invocations[i].server \in Ready
    /\ pc = "await_tool" => pending.server \in Ready

\* C31: the state of every configured connection only moves forward.  A
\* connection is disconnected until connect attempts it, then failed or
\* ready for good, and closed once close released its session; each server
\* is attempted once, in list order, a failed one never again, connect is
\* never entered a second time, and from the first close on no session is
\* open.
SessionContext(i) == <<"ClientSession", servers[i]>>

ConnState(i) ==
    IF i > Len(connLog) THEN "disconnected"
    ELSE IF connLog[i] # "ok" THEN "failed"
    ELSE IF SessionContext(i) \in Range(exitStack) THEN "ready"
    ELSE "closed"

ConnRank(state) ==
    IF state = "disconnected" THEN 0
    ELSE IF state = "ready" THEN 2
    ELSE 3

C31_ConnectionStateForwardOnly ==
    /\ [](/\ Len(connLog) = connIdx - 1
          /\ Len(connLog) <= Len(servers)
          /\ closes > 0 => \A i \in 1..Len(servers) : ConnState(i) # "ready")
    /\ [][/\ connLog' = connLog \/ \E o \in ConnectOutcomes : connLog' = Append(connLog, o)
          /\ pc # "connect" => (pc' # "connect" /\ connLog' = connLog)
          /\ \A i \in 1..Len(servers) :
                /\ ConnRank(ConnState(i)') >= ConnRank(ConnState(i))
                /\ ConnState(i) \in {"failed", "closed"} => ConnState(i)' = ConnState(i)]_vars

C31_Witness ==
    /\ connLog = <<"ok", "discovery_fails">>
    /\ closes = 2
    /\ ConnState(1) = "closed"
    /\ ConnState(2) = "failed"
    /\ returned.kind = "value"

\* C32 (as claimed): once close has run, mcp.tools holds no descriptor whose
\* origin is a connection that close closed.
OriginsOf(name) ==
    {i \in 1..Len(connLog) : NameOf(servers[i]) = tools[name]}

C32_DescriptorsDestroyedOnCloseAsClaimed ==
    closes >= 1
    => \A n \in DOMAIN tools :
          \A i \in OriginsOf(n) : ConnState(i) # "closed"

\* C33 (as claimed): the value an invocation returns as the model's final
\* answer is never the value it returns at the ceiling: a returned sentinel
\* means the ceiling was exhausted, with no final answer given.
C33_SentinelDistinctAsClaimed ==
    (Ended /\ returned = [kind |-> "value", value |-> Sentinel])
    => /\ ~EndedByPlainReply
       /\ ~StepsLeft(step, max_steps)

\* C34: a run of one task always comes to the close of the manager, however
\* the task ended (answer, sentinel, model fault, dispatch fault), and close
\* leaves every context that connect entered released and none open.
AllReleased ==
    /\ pc = "closed"
    /\ exitStack = <<>>
    /\ Range(released) = Opened

C34_ManagerClosedOnEveryExit == <>[]AllReleased

C34_Witness ==
    /\ AllReleased
    /\ returned = [kind |-> "raised", value |-> <<"TypeError">>]
    /\ connLog = <<"ok", "ok">>
    /\ Len(released) = 4

\* C35: with a ceiling of zero or less an invocation makes no model call and
\* dispatches no handler; it refreshes the system turn, appends the task turn
\* and nothing else, and returns the sentinel.
C35_NoStepAtZeroCeiling ==
    max_steps <= 0
    => /\ modelCalls = 0
       /\ invocations = <<>>
       /\ ~MidStep
       /\ tasks >= 1
          => /\ Len(messages) = Base + 1
             /\ messages[Base + 1].role = "user"
             /\ messages[1] = RenderedPrompt
             /\ \A i \in 2..Base : messages[i] = msgs0[i]
             /\ pc # "loop" => returned = [kind |-> "value", value |-> Sentinel]

C35_Witness ==
    /\ max_steps = 0 - MaxBelow
    /\ tasks = 2
    /\ pc = "idle"
    /\ returned = [kind |-> "value", value |-> Sentinel]
    /\ Len(messages) = 3
    /\ DOMAIN tools # {}

\* C36: whatever the connect attempts did, and for any configured list, every
\* descriptor of mcp.tools names a server that is a key of mcp.sessions; so
\* call_tool of a registered name always goes on to its session, and no
\* result turn ever carries the "not connected" text.
ServerNames == {NameOf(servers[i]) : i \in 1..Len(servers)}

C36_RegisteredOriginHasSession ==
    /\ \A n \in DOMAIN tools : tools[n] \in DOMAIN sessions
    /\ \A i \in 1..Len(messages) :
          \A srv \in ServerNames :
             messages[i] # ToolResultTurn(NotConnectedText(srv))
    /\ \A i \in 1..Len(invocations) :
          (invocations[i].kind = "call_tool" /\ invocations[i].name \in DOMAIN tools)
          => /\ i < Len(invocations)
             /\ invocations[i + 1].kind = "session"
             /\ invocations[i + 1].name = invocations[i].name
             /\ invocations[i + 1].step = invocations[i].step

C36_Witness ==
    /\ servers = Servers
    /\ connLog = <<"discovery_fails", "ok">>
    /\ DOMAIN sessions = {"filesystem", "contrast"}
    /\ pc = "loop"
    /\ step = 1
    /\ invocations[Len(invocations)].kind = "session"
    /\ messages[Len(messages)] = ToolResultTurn(CallToolResult("read_file", "text"))
====
